---------------------------- MODULE Spec2Model ----------------------------
(***************************************************************************)
(* Betamax: an HTTP record/replay proxy.                                   *)
(*                                                                         *)
(* The model follows src/proxy/proxy.go (the handler pipeline and the      *)
(* request matcher) and the proxy package part of src/betamax.go (Config,  *)
(* its Load/Save/Reset and the cassette encoding).                         *)
(*                                                                         *)
(* Representation.  A byte string ([]byte or a Go string) is a sequence of *)
(* byte values 0..255.  A header value is a sequence of tokens, so that    *)
(* the regular expression of IsText can look inside it.  An http.Header    *)
(* and a url.Values are functions whose domain is the set of keys present; *)
(* every present key has a non-empty list of values, as in Go.             *)
(***************************************************************************)
EXTENDS Integers, Sequences, FiniteSets, TLC

(***************************************************************************)
(* Bounds of the model.                                                    *)
(***************************************************************************)
\* how many times the upstream is contacted in one behaviour
MaxUpstream == 2
\* longest body of the round-trip specification
MaxBodyLen == 2
\* longest episode sequence of the round-trip specification
MaxCassetteLen == 2

(***************************************************************************)
(* Small maps                                                              *)
(***************************************************************************)
EmptyMap == [k \in {} |-> <<>>]

\* m[key] of a Go map of slices: nil (length 0) for a missing key
MapGet(m, key) == IF key \in DOMAIN m THEN m[key] ELSE <<>>

\* url.Values.Add
MapAdd(m, key, val) ==
    [k \in (DOMAIN m) \cup {key} |->
        IF k = key THEN Append(MapGet(m, key), val) ELSE m[k]]

\* a map with one key
MapOne(key, vals) == [k \in {key} |-> vals]

\* the union of two maps with disjoint keys
MapJoin(m1, m2) ==
    [k \in (DOMAIN m1) \cup (DOMAIN m2) |->
        IF k \in DOMAIN m1 THEN m1[k] ELSE m2[k]]

(***************************************************************************)
(* Bytes of the characters the model's requests are written with.          *)
(***************************************************************************)
ChAmp == 38
ChEq == 61

\* index of the first occurrence of byte c in s, 0 when there is none
IndexByte(s, c) ==
    IF \E i \in 1..Len(s) : s[i] = c
    THEN CHOOSE i \in 1..Len(s) : s[i] = c /\ \A j \in 1..(i - 1) : s[j] # c
    ELSE 0

(***************************************************************************)
(* url.ParseQuery, as used by http.Request.ParseForm for the raw query     *)
(* and for an application/x-www-form-urlencoded body.  The model's bytes   *)
(* hold no '%', '+' or ';', so unescaping leaves keys and values alone.    *)
(***************************************************************************)
RECURSIVE ParseQueryInto(_, _)
ParseQueryInto(query, m) ==
    IF query = <<>> THEN m
    ELSE LET cut == IndexByte(query, ChAmp)
             seg == IF cut = 0 THEN query ELSE SubSeq(query, 1, cut - 1)
             rest == IF cut = 0 THEN <<>> ELSE SubSeq(query, cut + 1, Len(query))
             eq == IndexByte(seg, ChEq)
             key == IF eq = 0 THEN seg ELSE SubSeq(seg, 1, eq - 1)
             val == IF eq = 0 THEN <<>> ELSE SubSeq(seg, eq + 1, Len(seg))
         IN  IF seg = <<>> THEN ParseQueryInto(rest, m)
             ELSE ParseQueryInto(rest, MapAdd(m, key, val))

ParseQuery(query) == ParseQueryInto(query, EmptyMap)

(***************************************************************************)
(* Header names and media types                                            *)
(***************************************************************************)
ContentType == "Content-Type"
Accept == "Accept"

FormURLEncoded == <<"application/", "x-www-form-urlencoded">>
TextPlain == <<"text/", "plain">>
TextHTML == <<"text/", "html">>
AppJSON == <<"application/", "json">>
OctetStream == <<"application/", "octet-stream">>

\* http.Header.Get: the first value of the header, "" when it is absent
HeaderGet(header, name) ==
    IF name \in DOMAIN header /\ Len(header[name]) > 0
    THEN header[name][1] ELSE <<>>

(***************************************************************************)
(* peekForm: http.Request.ParseMultipartForm followed by req.Form.         *)
(* ParseForm parses the body only for POST, PUT and PATCH with the media   *)
(* type application/x-www-form-urlencoded, and always adds the values of   *)
(* the URL's raw query after those of the body.  The error is dropped by   *)
(* both callers.  No request of the model is multipart/form-data.          *)
(***************************************************************************)
parsePostForm(req) ==
    IF req.Method \in {"POST", "PUT", "PATCH"}
       /\ HeaderGet(req.Header, ContentType) = FormURLEncoded
    THEN ParseQuery(req.Body) ELSE EmptyMap

peekForm(req) == ParseQueryInto(req.URL.RawQuery, parsePostForm(req))

\* peekBytes: the whole body; the reader is refilled, so nothing is consumed
peekBytes(req) == req.Body

sameURL(a, b) ==
    a.Path = b.Path /\ a.RawQuery = b.RawQuery /\ a.Fragment = b.Fragment

(***************************************************************************)
(* sameHeaders: the length test and the value test both sit inside the     *)
(* loop over the live request's values of the header.                      *)
(***************************************************************************)
sameHeaders(recorded, newRequest, matchHeaders) ==
    \A n \in 1..Len(matchHeaders) :
        LET header == matchHeaders[n]
            live == MapGet(newRequest, header)
            rec == MapGet(recorded, header)
        IN  \A i \in 1..Len(live) :
                /\ Len(live) = Len(rec)
                /\ live[i] = rec[i]

\* a sameRequest that never looks at the form
sameRequestNoForm(a, b, matchHeaders) ==
    /\ a.Method = b.Method
    /\ sameURL(a.URL, b.URL)
    /\ sameHeaders(a.Header, b.Header, matchHeaders)
    /\ (DOMAIN peekForm(b) = {}) => (a.Body = peekBytes(b))

(***************************************************************************)
(* sameRequest(a, b, config): a is the recorded request, b the live one.   *)
(***************************************************************************)
sameRequest(a, b, matchHeaders) ==
    /\ a.Method = b.Method
    /\ sameURL(a.URL, b.URL)
    /\ sameHeaders(a.Header, b.Header, matchHeaders)
    /\ LET form == peekForm(b)
       IN  /\ \A key \in DOMAIN form :
                 /\ Len(MapGet(a.Form, key)) = Len(form[key])
                 /\ \A i \in 1..Len(form[key]) : a.Form[key][i] = form[key][i]
           /\ (DOMAIN form = {}) => (a.Body = peekBytes(b))

\* a findEpisode that keeps looking and returns the last episode that matches
findEpisodeLast(req, episodes, matchHeaders) ==
    IF \E i \in 1..Len(episodes) : sameRequest(episodes[i].Request, req, matchHeaders)
    THEN CHOOSE i \in 1..Len(episodes) :
            /\ sameRequest(episodes[i].Request, req, matchHeaders)
            /\ \A j \in (i + 1)..Len(episodes) :
                   ~sameRequest(episodes[j].Request, req, matchHeaders)
    ELSE 0

\* findEpisode: index of the first episode whose request matches, 0 for nil
findEpisode(req, episodes, matchHeaders) ==
    IF \E i \in 1..Len(episodes) : sameRequest(episodes[i].Request, req, matchHeaders)
    THEN CHOOSE i \in 1..Len(episodes) :
            /\ sameRequest(episodes[i].Request, req, matchHeaders)
            /\ \A j \in 1..(i - 1) : ~sameRequest(episodes[j].Request, req, matchHeaders)
    ELSE 0

\* recordRequest
recordRequest(req) ==
    [URL |-> req.URL, Header |-> req.Header, Method |-> req.Method,
     Body |-> peekBytes(req), Form |-> peekForm(req)]

(***************************************************************************)
(* Cassette encoding (src/betamax.go)                                      *)
(***************************************************************************)

\* IsText: regexp "^(text/)|(json)" on the first Content-Type value: the
\* value starts with "text/", or "json" occurs anywhere in it
IsText(headers) ==
    IF ContentType \notin DOMAIN headers THEN FALSE
    ELSE LET v == headers[ContentType][1]
         IN  \/ (Len(v) > 0 /\ v[1] = "text/")
             \/ \E i \in 1..Len(v) : v[i] = "json"

IsCont(b) == b >= 128 /\ b <= 191

(***************************************************************************)
(* utf8.DecodeRuneInString at the head of s: the number of bytes of the    *)
(* well-formed rune there, 0 when the head byte starts none (RuneError     *)
(* of width 1).                                                            *)
(***************************************************************************)
RuneLen(s) ==
    LET n == Len(s)
        b0 == s[1]
    IN  IF b0 < 128 THEN 1
        ELSE IF b0 >= 194 /\ b0 <= 223
             THEN IF n >= 2 /\ IsCont(s[2]) THEN 2 ELSE 0
        ELSE IF b0 >= 224 /\ b0 <= 239
             THEN IF /\ n >= 3
                     /\ s[2] >= (IF b0 = 224 THEN 160 ELSE 128)
                     /\ s[2] <= (IF b0 = 237 THEN 159 ELSE 191)
                     /\ IsCont(s[3])
                  THEN 3 ELSE 0
        ELSE IF b0 >= 240 /\ b0 <= 244
             THEN IF /\ n >= 4
                     /\ s[2] >= (IF b0 = 240 THEN 144 ELSE 128)
                     /\ s[2] <= (IF b0 = 244 THEN 143 ELSE 191)
                     /\ IsCont(s[3])
                     /\ IsCont(s[4])
                  THEN 4 ELSE 0
        ELSE 0

(***************************************************************************)
(* The content of the JSON string encoding/json writes for a Go string and *)
(* reads back: every byte that starts no well-formed rune is replaced by   *)
(* U+FFFD (EF BF BD); escaping is undone by the decoder.                   *)
(***************************************************************************)
RECURSIVE jsonString(_)
jsonString(s) ==
    IF s = <<>> THEN <<>>
    ELSE LET n == RuneLen(s)
         IN  IF n = 0 THEN <<239, 191, 189>> \o jsonString(Tail(s))
             ELSE SubSeq(s, 1, n) \o jsonString(SubSeq(s, n + 1, Len(s)))

\* the character of base64.StdEncoding for a 6-bit value
B64Char(v) ==
    IF v < 26 THEN 65 + v
    ELSE IF v < 52 THEN 97 + (v - 26)
    ELSE IF v < 62 THEN 48 + (v - 52)
    ELSE IF v = 62 THEN 43 ELSE 47

\* the 6-bit value of a character of base64.StdEncoding, -1 for any other
B64Value(c) ==
    IF c >= 65 /\ c <= 90 THEN c - 65
    ELSE IF c >= 97 /\ c <= 122 THEN c - 97 + 26
    ELSE IF c >= 48 /\ c <= 57 THEN c - 48 + 52
    ELSE IF c = 43 THEN 62
    ELSE IF c = 47 THEN 63 ELSE -1

\* encoding/json writes a []byte as a base64.StdEncoding string
RECURSIVE Base64Encode(_)
Base64Encode(b) ==
    IF Len(b) = 0 THEN <<>>
    ELSE IF Len(b) = 1
         THEN <<B64Char(b[1] \div 4), B64Char((b[1] % 4) * 16), 61, 61>>
    ELSE IF Len(b) = 2
         THEN <<B64Char(b[1] \div 4),
                B64Char((b[1] % 4) * 16 + b[2] \div 16),
                B64Char((b[2] % 16) * 4), 61>>
    ELSE <<B64Char(b[1] \div 4),
           B64Char((b[1] % 4) * 16 + b[2] \div 16),
           B64Char((b[2] % 16) * 4 + b[3] \div 64),
           B64Char(b[3] % 64)>> \o Base64Encode(SubSeq(b, 4, Len(b)))

\* base64.StdEncoding.DecodeString with its error dropped: the bytes decoded
\* before the first malformed quantum
RECURSIVE Base64Decode(_)
Base64Decode(s) ==
    IF Len(s) < 4 THEN <<>>
    ELSE LET v1 == B64Value(s[1])
             v2 == B64Value(s[2])
             v3 == B64Value(s[3])
             v4 == B64Value(s[4])
             y1 == v1 * 4 + v2 \div 16
             y2 == (v2 % 16) * 16 + v3 \div 4
             y3 == (v3 % 4) * 64 + v4
         IN  IF v1 < 0 \/ v2 < 0 THEN <<>>
             ELSE IF s[3] = 61 /\ s[4] = 61 /\ Len(s) = 4 THEN <<y1>>
             ELSE IF v3 < 0 THEN <<>>
             ELSE IF s[4] = 61 /\ Len(s) = 4 THEN <<y1, y2>>
             ELSE IF v4 < 0 THEN <<>>
             ELSE <<y1, y2, y3>> \o Base64Decode(SubSeq(s, 5, Len(s)))

\* writableBodyForContentType followed by json.Marshal of the interface value:
\* a string for a textual body, a []byte for any other
writableBodyForContentType(body, headers) ==
    IF IsText(headers) THEN jsonString(body) ELSE Base64Encode(body)

\* bodyForContentType, on the string json.Unmarshal built
bodyForContentType(body, headers) ==
    IF IsText(headers) THEN body ELSE Base64Decode(body)

writeableEpisodes(eps) ==
    [i \in 1..Len(eps) |->
        [Request |->
            [Method |-> eps[i].Request.Method,
             URL |-> eps[i].Request.URL,
             Header |-> eps[i].Request.Header,
             Body |-> writableBodyForContentType(eps[i].Request.Body,
                                                 eps[i].Request.Header),
             Form |-> eps[i].Request.Form],
         Response |->
            [StatusCode |-> eps[i].Response.StatusCode,
             Header |-> eps[i].Response.Header,
             Body |-> writableBodyForContentType(eps[i].Response.Body,
                                                 eps[i].Response.Header)]]]

episodes(ws) ==
    [i \in 1..Len(ws) |->
        [Request |->
            [Method |-> ws[i].Request.Method,
             URL |-> ws[i].Request.URL,
             Header |-> ws[i].Request.Header,
             Body |-> bodyForContentType(ws[i].Request.Body, ws[i].Request.Header),
             Form |-> ws[i].Request.Form],
         Response |->
            [StatusCode |-> ws[i].Response.StatusCode,
             Header |-> ws[i].Response.Header,
             Body |-> bodyForContentType(ws[i].Response.Body, ws[i].Response.Header)]]]

(***************************************************************************)
(* State                                                                   *)
(***************************************************************************)
VARIABLES
    config,      \* the one Config shared by every handler
    files,       \* the cassette directory: cassette name -> file
    upstreamUp,  \* whether the target server answers
    forwarded,   \* how many times the reverse proxy has been invoked
    last,        \* the request handled last and the response it was given
    probe,       \* inputs and result of the pure-function specifications
    inflight     \* the recordings in flight: position and locals of each

vars == <<config, files, upstreamUp, forwarded, last, probe, inflight>>

CassetteNames == {"A", "B"}
FileNames == CassetteNames \cup {""}

(***************************************************************************)
(* A cassette file: whether it exists, the episodes its JSON text holds,   *)
(* and what is wrong with it when it is not what Save wrote:               *)
(*   "locked"  the file can be neither read nor written (mode 000);        *)
(*   "syntax"  the text is not JSON (json.Unmarshal decodes nothing);      *)
(*   "type"    the text is JSON but a field has the wrong JSON type        *)
(*             (json.Unmarshal decodes the rest and returns the error);    *)
(*   "null"    the Body of an episode is null (the type assertion in       *)
(*             bodyForContentType panics).                                 *)
(***************************************************************************)
Faults == {"locked", "syntax", "type", "null"}

NoFile == [exists |-> FALSE, data |-> <<>>, fault |-> "none"]

TargetHost == "upstream"
ProxyHost == "proxy"
ConfigPath == "/__betamax__/config"

NoProbe == [kind |-> "none"]

\* no recording is in flight between two steps of the sequential specifications
NoneInFlight == [handlers |-> <<>>, appended |-> <<>>, written |-> <<>>]

\* Proxy: the Config literal; the other fields take Go's zero values
Proxy ==
    [TargetHost |-> TargetHost,
     CassetteDir |-> "cassettes",
     Episodes |-> <<>>,
     Cassette |-> "",
     RecordNewEpisodes |-> TRUE,
     DenyUnrecordedRequests |-> FALSE,
     RewriteHostHeader |-> TRUE,
     MatchHeaders |-> <<>>]

(***************************************************************************)
(* Config.Save, Config.Load, Config.Reset.  The cassette files of the main *)
(* specification are always readable and hold what Save wrote.             *)
(***************************************************************************)

\* the error Save returns: ioutil.WriteFile cannot open a locked file
SaveError(c, fs) ==
    IF fs[c.Cassette].exists /\ fs[c.Cassette].fault = "locked"
    THEN "locked" ELSE "none"

\* Save, first half: the episodes as json.MarshalIndent is given them
MarshalIndent(c) == writeableEpisodes(c.Episodes)

\* a WriteFile that writes what memory holds when the file is written
WriteFileFresh(c, fs, jsonData) ==
    IF SaveError(c, fs) # "none" THEN fs
    ELSE [fs EXCEPT ![c.Cassette] =
            [exists |-> TRUE, data |-> MarshalIndent(c), fault |-> "none"]]

\* Save, second half: ioutil.WriteFile replaces the whole file of the
\* cassette inserted at that moment with the text marshalled before
WriteFile(c, fs, jsonData) ==
    IF SaveError(c, fs) # "none" THEN fs
    ELSE [fs EXCEPT ![c.Cassette] =
            [exists |-> TRUE, data |-> jsonData, fault |-> "none"]]

Save(c, fs) == WriteFile(c, fs, MarshalIndent(c))

\* what Load ends with: "none" for a nil error, the fault of the file for
\* the error returned, "null" standing for the panic
LoadError(c, fs) ==
    IF c.Cassette = "" \/ ~fs[c.Cassette].exists THEN "none"
    ELSE fs[c.Cassette].fault

Load(c, fs) ==
    IF c.Cassette = ""
    THEN [c EXCEPT !.Episodes = <<>>,
                   !.RecordNewEpisodes = TRUE,
                   !.RewriteHostHeader = TRUE,
                   !.DenyUnrecordedRequests = FALSE]
    ELSE IF ~fs[c.Cassette].exists
    THEN [c EXCEPT !.Episodes = <<>>]
    ELSE IF fs[c.Cassette].fault = "locked"
    THEN [c EXCEPT !.Episodes = <<>>]
    ELSE IF fs[c.Cassette].fault = "syntax"
    THEN [c EXCEPT !.Episodes = episodes(<<>>)]
    ELSE IF fs[c.Cassette].fault = "null"
    THEN c
    ELSE [c EXCEPT !.Episodes = episodes(fs[c.Cassette].data)]

\* a Reset that leaves the cassette file in place
ResetKeepFile(c, fs) ==
    [config |-> [c EXCEPT !.Episodes = <<>>], files |-> fs]

\* Reset, for an inserted cassette
Reset(c, fs) ==
    [config |-> [c EXCEPT !.Episodes = <<>>],
     files |-> [fs EXCEPT ![c.Cassette] = NoFile]]

\* a writeEpisode that saves before it appends
writeEpisodeSaveFirst(episode, c, fs) ==
    [config |-> [c EXCEPT !.Episodes = Append(c.Episodes, episode)],
     files |-> Save(c, fs)]

\* writeEpisode: append, then Save (whose error is dropped)
writeEpisode(episode, c, fs) ==
    LET c2 == [c EXCEPT !.Episodes = Append(c.Episodes, episode)]
    IN  [config |-> c2, files |-> Save(c2, fs)]

(***************************************************************************)
(* json.Decoder.Decode into the existing Config: a key of the body sets    *)
(* its field, every other field is left alone.  A field without a json tag *)
(* is set by a key spelling its Go name.                                   *)
(***************************************************************************)
Decode(c, body) ==
    [c EXCEPT
        !.Cassette = IF "cassette" \in DOMAIN body THEN body.cassette ELSE @,
        !.RecordNewEpisodes =
            IF "record_new_episodes" \in DOMAIN body
            THEN body.record_new_episodes ELSE @,
        !.DenyUnrecordedRequests =
            IF "deny_unrecorded_requests" \in DOMAIN body
            THEN body.deny_unrecorded_requests ELSE @,
        !.RewriteHostHeader =
            IF "rewrite_host_header" \in DOMAIN body
            THEN body.rewrite_host_header ELSE @,
        !.MatchHeaders =
            IF "match_headers" \in DOMAIN body THEN body.match_headers ELSE @,
        !.TargetHost = IF "TargetHost" \in DOMAIN body THEN body.TargetHost ELSE @]

(***************************************************************************)
(* The pipeline                                                            *)
(***************************************************************************)

\* rewriteHeaderHandler
rewriteHeaderHandler(req, c) ==
    IF c.RewriteHostHeader THEN [req EXCEPT !.Host = c.TargetHost] ELSE req

\* a cassetteHandler without the test for an empty tray
cassetteHandlerNoTrayTest(req, c) ==
    IF findEpisode(req, c.Episodes, c.MatchHeaders) # 0 THEN "replay"
    ELSE IF c.RecordNewEpisodes THEN "record"
    ELSE IF c.DenyUnrecordedRequests THEN "deny"
    ELSE "passthrough"

\* a cassetteHandler without the denial branch
cassetteHandlerNoDenial(req, c) ==
    IF c.Cassette = "" THEN "passthrough"
    ELSE IF findEpisode(req, c.Episodes, c.MatchHeaders) # 0 THEN "replay"
    ELSE IF c.RecordNewEpisodes THEN "record"
    ELSE "passthrough"

\* cassetteHandler: the branch taken, in the order the code tests them
cassetteHandler(req, c) ==
    IF c.Cassette = "" THEN "passthrough"
    ELSE IF findEpisode(req, c.Episodes, c.MatchHeaders) # 0 THEN "replay"
    ELSE IF c.RecordNewEpisodes THEN "record"
    ELSE IF c.DenyUnrecordedRequests THEN "deny"
    ELSE "passthrough"

\* serveEpisode: every header value, the status code and the body
serveEpisode(episode) ==
    [StatusCode |-> episode.Response.StatusCode,
     Header |-> episode.Response.Header,
     Body |-> episode.Response.Body]

DeniedBody ==
    <<66, 101, 116, 97, 77, 97, 120, 58, 32, 114, 101, 113, 117, 101, 115,
      116, 32, 110, 111, 116, 32, 114, 101, 99, 111, 114, 100, 101, 100, 44,
      32, 110, 101, 105, 116, 104, 101, 114, 32, 114, 101, 113, 117, 101,
      115, 116, 101, 100, 46, 10>>

NotAllowedBody ==
    <<66, 101, 116, 97, 77, 97, 120, 58, 32, 109, 101, 116, 104, 111, 100,
      32, 80, 85, 84, 32, 105, 115, 32, 110, 111, 116, 32, 97, 108, 108, 111,
      119, 101, 100, 46, 10>>

ResetErrorBody ==
    <<67, 97, 115, 115, 101, 116, 101, 32, 105, 115, 32, 110, 111, 116, 32,
      105, 110, 115, 101, 114, 116, 101, 100, 32, 102, 111, 114, 32, 68, 69,
      76, 69, 84, 69, 32, 47, 95, 95, 98, 101, 116, 97, 109, 97, 120, 95, 95,
      47, 99, 111, 110, 102, 105, 103, 10>>

\* the text recoverHandler answers with when Load fails, cut down to the
\* word that names the failure: "open", "invalid", "json", "interface"
LoadErrorBody(err) ==
    IF err = "locked" THEN <<111, 112, 101, 110>>
    ELSE IF err = "syntax" THEN <<105, 110, 118, 97, 108, 105, 100>>
    ELSE IF err = "type" THEN <<106, 115, 111, 110>>
    ELSE <<105, 110, 116, 101, 114, 102, 97, 99, 101>>

(***************************************************************************)
(* The target server.  Its n-th answer carries n in the body; the answer   *)
(* is text in UTF-8 or text in a single-byte charset.                      *)
(***************************************************************************)
UpstreamKinds == {"text", "latin1"}

UpstreamResponse(kind, n) ==
    [StatusCode |-> 200,
     Header |-> IF kind = "text" THEN MapOne(ContentType, <<TextPlain>>)
                ELSE MapOne(ContentType, <<TextHTML>>),
     Body |-> IF kind = "text" THEN <<48 + n>> ELSE <<233, 48 + n>>]

\* httputil.ReverseProxy: the target's answer, or a bare server error when
\* the target cannot be reached
proxy(kind, n, up) ==
    IF up THEN UpstreamResponse(kind, n)
    ELSE [StatusCode |-> 500, Header |-> EmptyMap, Body |-> <<>>]

\* ProxyResponseWriter: what the recording writer holds once the inner
\* handler has written the response through it
ProxyResponseWriter(resp) ==
    [StatusCode |-> resp.StatusCode, Header |-> resp.Header, Body |-> resp.Body]

(***************************************************************************)
(* Inputs                                                                  *)
(***************************************************************************)
Request(method, query, header, body) ==
    [Method |-> method,
     URL |-> [Path |-> "/x", RawQuery |-> query, Fragment |-> ""],
     Header |-> header,
     Body |-> body,
     Host |-> ProxyHost]

\* "a=1", "a=1&b=2", "q=1"
BodyA1 == <<97, 61, 49>>
BodyA1B2 == <<97, 61, 49, 38, 98, 61, 50>>
QueryQ1 == <<113, 61, 49>>

\* the requests clients send in the main specification
Requests ==
    {Request("GET", <<>>, EmptyMap, <<>>),
     Request("POST", <<>>, MapOne(ContentType, <<FormURLEncoded>>), BodyA1)}

\* the JSON objects clients POST to the control endpoint in the main
\* specification
ConfigBodies ==
    <<[cassette |-> "A"],
      [cassette |-> "B"],
      [cassette |-> ""],
      [record_new_episodes |-> FALSE],
      [deny_unrecorded_requests |-> TRUE],
      [rewrite_host_header |-> FALSE]>>

\* the requests and the control POSTs of the replay specification: clients
\* that differ in the Content-Type and in the form they submit, under one
\* cassette and the start-up policy
ReplayRequests ==
    {Request("GET", <<>>, MapOne(ContentType, <<TextPlain>>), <<>>),
     Request("GET", <<>>, MapOne(ContentType, <<TextHTML>>), <<>>),
     Request("POST", <<>>, MapOne(ContentType, <<FormURLEncoded>>), BodyA1),
     Request("POST", <<>>, MapOne(ContentType, <<FormURLEncoded>>), BodyA1B2),
     Request("POST", <<>>, MapOne(ContentType, <<TextPlain>>), BodyA1)}

ReplayConfigBodies == <<[cassette |-> "A"]>>

ConfigMethods == {"GET", "POST", "DELETE", "PUT"}

ConfigRequest(method) ==
    [Method |-> method,
     URL |-> [Path |-> ConfigPath, RawQuery |-> <<>>, Fragment |-> ""],
     Header |-> EmptyMap,
     Body |-> <<>>,
     Host |-> ProxyHost]

(***************************************************************************)
(* Init: the state Proxy builds, an empty cassette directory, the target   *)
(* server running.                                                         *)
(***************************************************************************)
NoRequest ==
    [kind |-> "none", req |-> ConfigRequest(""), outcome |-> "",
     resp |-> [StatusCode |-> 0, Header |-> EmptyMap, Body |-> <<>>],
     upstream |-> 0, host |-> "", json |-> <<>>]

Init ==
    /\ config = Proxy
    /\ files = [f \in FileNames |-> NoFile]
    /\ upstreamUp = TRUE
    /\ forwarded = 0
    /\ last = NoRequest
    /\ inflight = NoneInFlight
    /\ probe = NoProbe

(***************************************************************************)
(* ServeHTTP for a path other than the control path: recoverHandler,       *)
(* configHandler, rewriteHeaderHandler, cassetteHandler and, on the        *)
(* branches that forward, the reverse proxy.                               *)
(***************************************************************************)
ServeHTTP(req) ==
    \E kind \in UpstreamKinds :
        LET branch == cassetteHandler(req, config)
            forwards == branch \in {"passthrough", "record"}
            live == proxy(kind, forwarded + 1, upstreamUp)
            found == findEpisode(req, config.Episodes, config.MatchHeaders)
            resp == IF branch = "replay" THEN serveEpisode(config.Episodes[found])
                    ELSE IF branch = "deny"
                    THEN [StatusCode |-> 499, Header |-> EmptyMap, Body |-> DeniedBody]
                    ELSE live
            written == writeEpisode([Request |-> recordRequest(req),
                                     Response |-> ProxyResponseWriter(live)],
                                    config, files)
        IN  /\ forwards => forwarded < MaxUpstream
            /\ forwarded' = IF forwards THEN forwarded + 1 ELSE forwarded
            /\ config' = IF branch = "record" THEN written.config ELSE config
            /\ files' = IF branch = "record" THEN written.files ELSE files
            /\ last' = [kind |-> "proxy", req |-> req, outcome |-> branch,
                        resp |-> resp,
                        upstream |-> IF forwards THEN 1 ELSE 0,
                        host |-> IF forwards
                                 THEN rewriteHeaderHandler(req, config).Host
                                 ELSE "",
                        json |-> <<>>]
            /\ UNCHANGED <<upstreamUp, probe, inflight>>

(***************************************************************************)
(* ServeHTTP for the control path: handleConfigRequest under               *)
(* recoverHandler, which turns a panic into a 500 carrying the message.    *)
(***************************************************************************)
handleConfigRequest(method, body) ==
    LET answer(status, text, json) ==
            [kind |-> "config", req |-> ConfigRequest(method),
             outcome |-> "config",
             resp |-> [StatusCode |-> status, Header |-> EmptyMap, Body |-> text],
             upstream |-> 0, host |-> "", json |-> json]
    IN  /\ UNCHANGED <<upstreamUp, forwarded, probe, inflight>>
        /\ IF method = "GET"
           THEN /\ last' = answer(200, <<>>, <<config>>)
                /\ UNCHANGED <<config, files>>
           ELSE IF method = "POST"
           THEN /\ config' = Load(Decode(config, body), files)
                /\ last' = IF LoadError(Decode(config, body), files) = "none"
                           THEN answer(200, <<>>, <<>>)
                           ELSE answer(500,
                                       LoadErrorBody(LoadError(Decode(config, body), files)),
                                       <<>>)
                /\ UNCHANGED files
           ELSE IF method = "DELETE"
           THEN IF config.Cassette = ""
                THEN /\ last' = answer(500, ResetErrorBody, <<>>)
                     /\ UNCHANGED <<config, files>>
                ELSE /\ config' = Reset(config, files).config
                     /\ files' = Reset(config, files).files
                     /\ last' = answer(200, <<>>, <<>>)
           ELSE /\ last' = answer(405, NotAllowedBody, <<>>)
                /\ UNCHANGED <<config, files>>

\* the target server goes down or comes back
UpstreamToggle ==
    /\ upstreamUp' = ~upstreamUp
    /\ UNCHANGED <<config, files, forwarded, last, probe, inflight>>

Next ==
    \/ \E req \in Requests : ServeHTTP(req)
    \/ \E n \in 1..Len(ConfigBodies) : handleConfigRequest("POST", ConfigBodies[n])
    \/ \E method \in ConfigMethods \ {"POST"} : handleConfigRequest(method, EmptyMap)
    \/ UpstreamToggle

Spec == Init /\ [][Next]_vars

NextReplay ==
    \/ \E req \in ReplayRequests : ServeHTTP(req)
    \/ \E n \in 1..Len(ReplayConfigBodies) :
          handleConfigRequest("POST", ReplayConfigBodies[n])
    \/ \E method \in ConfigMethods \ {"POST"} : handleConfigRequest(method, EmptyMap)
    \/ UpstreamToggle

SpecReplay == Init /\ [][NextReplay]_vars

(***************************************************************************)
(* The matcher on its own: a recorded request, a live request and a match  *)
(* policy are drawn, and sameRequest is applied to them as findEpisode     *)
(* applies it.                                                             *)
(***************************************************************************)
MatchRequests ==
    {Request(method, query, MapJoin(ct, acc), body) :
        method \in {"GET", "POST"},
        query \in {<<>>, QueryQ1},
        ct \in {EmptyMap,
                MapOne(ContentType, <<FormURLEncoded>>),
                MapOne(ContentType, <<TextPlain>>)},
        acc \in {EmptyMap,
                 MapOne(Accept, <<<<"a">>>>),
                 MapOne(Accept, <<<<"a">>, <<"b">>>>)},
        body \in {<<>>, BodyA1, BodyA1B2}}

MatchPolicies == {<<>>, <<Accept>>, <<Accept, ContentType>>}

InitMatch ==
    /\ config = Proxy
    /\ files = [f \in FileNames |-> NoFile]
    /\ upstreamUp = TRUE
    /\ forwarded = 0
    /\ last = NoRequest
    /\ inflight = NoneInFlight
    /\ \E rec \in MatchRequests, live \in MatchRequests, mh \in MatchPolicies :
          probe = [kind |-> "match", recorded |-> recordRequest(rec),
                   live |-> live, matchHeaders |-> mh, result |-> "pending"]

Match ==
    /\ probe.kind = "match"
    /\ probe.result = "pending"
    /\ probe' = [probe EXCEPT !.result =
                    IF sameRequest(probe.recorded, probe.live, probe.matchHeaders)
                    THEN "same" ELSE "different"]
    /\ UNCHANGED <<config, files, upstreamUp, forwarded, last, inflight>>

SpecMatch == InitMatch /\ [][Match]_vars

(***************************************************************************)
(* The cassette encoding on its own: a Config holding a drawn episode      *)
(* sequence is saved, and the cassette is loaded again.                    *)
(***************************************************************************)
ByteVals == {65, 195, 169}

\* the byte strings over ByteVals of length at most n
RECURSIVE BytesUpTo(_)
BytesUpTo(n) ==
    IF n = 0 THEN {<<>>}
    ELSE BytesUpTo(n - 1) \cup
         {Append(b, v) : b \in {x \in BytesUpTo(n - 1) : Len(x) = n - 1}, v \in ByteVals}

RoundTripEpisodes ==
    {[Request |-> recordRequest(Request("POST", <<>>, qh, qb)),
      Response |-> [StatusCode |-> 200, Header |-> rh, Body |-> rb]] :
        qh \in {EmptyMap, MapOne(ContentType, <<TextPlain>>)},
        qb \in {<<65>>, <<195>>},
        rh \in {EmptyMap, MapOne(ContentType, <<TextHTML>>),
                MapOne(ContentType, <<AppJSON>>)},
        rb \in BytesUpTo(MaxBodyLen)}

RECURSIVE SeqsUpTo(_, _)
SeqsUpTo(S, n) ==
    IF n = 0 THEN {<<>>}
    ELSE SeqsUpTo(S, n - 1) \cup
         {Append(q, e) : q \in {x \in SeqsUpTo(S, n - 1) : Len(x) = n - 1}, e \in S}

InitRoundTrip ==
    /\ files = [f \in FileNames |-> NoFile]
    /\ upstreamUp = TRUE
    /\ forwarded = 0
    /\ last = NoRequest
    /\ inflight = NoneInFlight
    /\ \E E \in SeqsUpTo(RoundTripEpisodes, MaxCassetteLen) :
          /\ config = [Proxy EXCEPT !.Cassette = "A", !.Episodes = E]
          /\ probe = [kind |-> "roundtrip", phase |-> "start", E |-> E]

RoundTripSave ==
    /\ probe.kind = "roundtrip"
    /\ probe.phase = "start"
    /\ files' = Save(config, files)
    /\ probe' = [probe EXCEPT !.phase = "saved"]
    /\ UNCHANGED <<config, upstreamUp, forwarded, last, inflight>>

RoundTripLoad ==
    /\ probe.kind = "roundtrip"
    /\ probe.phase = "saved"
    /\ config' = Load(config, files)
    /\ probe' = [probe EXCEPT !.phase = "loaded"]
    /\ UNCHANGED <<files, upstreamUp, forwarded, last, inflight>>

NextRoundTrip == RoundTripSave \/ RoundTripLoad

SpecRoundTrip == InitRoundTrip /\ [][NextRoundTrip]_vars

(***************************************************************************)
(* Properties of the pipeline (specification Spec)                         *)
(***************************************************************************)
Unmatched(req) == findEpisode(req, config.Episodes, config.MatchHeaders) = 0

NothingRecorded == config'.Episodes = config.Episodes /\ files' = files

\* the step is the handling of req by ServeHTTP
Served(req) == last'.kind = "proxy" /\ last'.req = req /\ ServeHTTP(req)

\* C2: while no cassette is inserted, a request off the control path is
\* forwarded to the upstream, once, and nothing is recorded: the episode
\* sequence is not extended and no cassette file is written; with the
\* upstream down the answer is the server error, never a replay.
C2_NoCassettePassthrough ==
    [][\A req \in Requests :
          (config.Cassette = "" /\ Served(req)) =>
              /\ last'.outcome = "passthrough"
              /\ last'.upstream = 1
              /\ forwarded' = forwarded + 1
              /\ NothingRecorded
              /\ config.Episodes = <<>>
              /\ \A f \in FileNames : files'[f] = files[f]
              /\ upstreamUp => last'.resp.StatusCode = 200
              /\ ~upstreamUp => last'.resp.StatusCode = 500]_vars

\* a second request is answered with the server error under no cassette,
\* the upstream being down, and nothing is held in memory
C2_Witness ==
    /\ last.kind = "proxy"
    /\ config.Cassette = ""
    /\ last.outcome = "passthrough"
    /\ ~upstreamUp
    /\ forwarded = 2
    /\ last.resp.StatusCode = 500
    /\ config.Episodes = <<>>

\* C3 as stated: with a cassette inserted, no episode matching and
\* denyUnrecordedRequests enabled, the request is answered 499, the upstream
\* is not contacted and nothing is recorded, whatever recordNewEpisodes and
\* rewriteHostHeader are.
C3_DenyWhateverTheToggles ==
    [][\A req \in Requests :
          (/\ config.Cassette # ""
           /\ config.DenyUnrecordedRequests
           /\ Unmatched(req)
           /\ Served(req)) =>
              /\ last'.resp.StatusCode = 499
              /\ last'.upstream = 0
              /\ forwarded' = forwarded
              /\ NothingRecorded]_vars

\* C3 amended: with a cassette inserted, no episode matching,
\* denyUnrecordedRequests enabled and recordNewEpisodes disabled, the
\* request is answered 499, the upstream is not contacted and nothing is
\* recorded, whatever rewriteHostHeader is.
C3_DenyWhenNotRecording ==
    [][\A req \in Requests :
          (/\ config.Cassette # ""
           /\ config.DenyUnrecordedRequests
           /\ ~config.RecordNewEpisodes
           /\ Unmatched(req)
           /\ Served(req)) =>
              /\ last'.resp.StatusCode = 499
              /\ last'.resp.Body = DeniedBody
              /\ last'.upstream = 0
              /\ forwarded' = forwarded
              /\ NothingRecorded]_vars

\* a request was denied with the host rewrite switched off
C3_Witness ==
    /\ last.kind = "proxy"
    /\ last.outcome = "deny"
    /\ last.resp.StatusCode = 499
    /\ config.Cassette # ""
    /\ config.DenyUnrecordedRequests
    /\ ~config.RecordNewEpisodes
    /\ ~config.RewriteHostHeader
    /\ Unmatched(last.req)

\* C4: with a cassette inserted, no episode matching and recording enabled,
\* the upstream is contacted exactly once, the episode sequence becomes the
\* previous one with one episode appended at the end, made of the live
\* request and of the response given to the client, and the file of the
\* active cassette holds the whole new sequence; no other file changes.
C4_RecordAppendsAndRewrites ==
    [][\A req \in Requests :
          (/\ config.Cassette # ""
           /\ config.RecordNewEpisodes
           /\ Unmatched(req)
           /\ Served(req)) =>
              LET n == Len(config.Episodes)
                  new == config'.Episodes[n + 1]
              IN  /\ last'.upstream = 1
                  /\ forwarded' = forwarded + 1
                  /\ Len(config'.Episodes) = n + 1
                  /\ SubSeq(config'.Episodes, 1, n) = config.Episodes
                  /\ new.Request.Method = req.Method
                  /\ new.Request.URL = req.URL
                  /\ new.Request.Header = req.Header
                  /\ new.Request.Body = req.Body
                  /\ new.Response = last'.resp
                  /\ files'[config.Cassette].exists
                  /\ files'[config.Cassette].data = writeableEpisodes(config'.Episodes)
                  /\ \A f \in FileNames \ {config.Cassette} : files'[f] = files[f]]_vars

\* a second episode has been recorded and the file holds both
C4_Witness ==
    /\ last.kind = "proxy"
    /\ last.outcome = "record"
    /\ config.Cassette # ""
    /\ Len(config.Episodes) = 2
    /\ config.Episodes[2].Response = last.resp
    /\ Len(files[config.Cassette].data) = 2

(***************************************************************************)
(* Properties of recording and replaying (specification SpecReplay: one    *)
(* cassette, the start-up policy, so that every episode in memory was      *)
(* recorded under the cassette and the policy in force)                    *)
(***************************************************************************)

\* rec, a recorded request, and live are equal in method, target, the
\* headers the policy lists and body
EqualAsMatched(rec, live, matchHeaders) ==
    /\ rec.Method = live.Method
    /\ rec.URL = live.URL
    /\ \A n \in 1..Len(matchHeaders) :
          MapGet(rec.Header, matchHeaders[n]) = MapGet(live.Header, matchHeaders[n])
    /\ rec.Body = live.Body

\* C1: once a request has been recorded under the cassette, every later
\* request equal to it in method, target, matched headers and body is
\* answered with the stored status code, headers and body of that episode,
\* and the upstream is not contacted, whether it is reachable or not.
C1_RecordThenReplay ==
    [][\A req \in ReplayRequests : \A i \in 1..Len(config.Episodes) :
          (/\ config.Cassette # ""
           /\ EqualAsMatched(config.Episodes[i].Request, req, config.MatchHeaders)
           /\ Served(req)) =>
              /\ last'.outcome = "replay"
              /\ last'.resp = config.Episodes[i].Response
              /\ last'.upstream = 0
              /\ forwarded' = forwarded]_vars

\* a and b differ in the value of their Content-Type header and in nothing
\* else
DifferOnlyInContentType(a, b) ==
    /\ a.Method = b.Method
    /\ a.URL = b.URL
    /\ a.Body = b.Body
    /\ DOMAIN a.Header = DOMAIN b.Header
    /\ ContentType \in DOMAIN a.Header
    /\ a.Header[ContentType] # b.Header[ContentType]
    /\ \A h \in DOMAIN a.Header \ {ContentType} : a.Header[h] = b.Header[h]

StartUpPolicy ==
    /\ config.RecordNewEpisodes
    /\ ~config.DenyUnrecordedRequests
    /\ config.RewriteHostHeader
    /\ config.MatchHeaders = <<>>

\* C7: with a cassette selected through the control endpoint and the
\* configuration otherwise at its start-up defaults, a GET that differs from
\* a recorded GET only in the value of its Content-Type header, and has not
\* been recorded itself, is recorded as a separate episode, the upstream
\* being contacted for it.
C7_ContentTypeRecordedSeparately ==
    [][\A req \in ReplayRequests : \A i \in 1..Len(config.Episodes) :
          (/\ config.Cassette # ""
           /\ StartUpPolicy
           /\ req.Method = "GET"
           /\ DifferOnlyInContentType(config.Episodes[i].Request, req)
           /\ \A j \in 1..Len(config.Episodes) :
                 config.Episodes[j].Request # recordRequest(req)
           /\ Served(req)) =>
              /\ last'.outcome = "record"
              /\ last'.upstream = 1
              /\ Len(config'.Episodes) = Len(config.Episodes) + 1]_vars

IsFormPost(req) ==
    /\ req.Method = "POST"
    /\ HeaderGet(req.Header, ContentType) = FormURLEncoded
    /\ DOMAIN parsePostForm(req) # {}

\* the episodes recorded from a form-encoded POST to the target of req
FormEpisodes(req) ==
    {i \in 1..Len(config.Episodes) :
        /\ IsFormPost(config.Episodes[i].Request)
        /\ config.Episodes[i].Request.URL = req.URL}

\* every field of the live form has the same values in the recorded form
FormWithin(live, recorded) ==
    \A key \in DOMAIN live : MapGet(recorded, key) = live[key]

\* C8 as stated: a form-encoded POST whose field set differs from that of
\* every episode recorded from a form-encoded POST to the same target
\* produces a new episode, whatever was recorded before it; a POST whose
\* field set is that of a recorded episode is answered with that episode
\* and creates none.
C8_FormsDistinctInAnyOrder ==
    [][\A req \in ReplayRequests :
          (/\ config.Cassette # ""
           /\ IsFormPost(req)
           /\ Served(req)) =>
              /\ (\A i \in FormEpisodes(req) :
                     config.Episodes[i].Request.Form # peekForm(req))
                  => /\ last'.outcome = "record"
                     /\ Len(config'.Episodes) = Len(config.Episodes) + 1
              /\ \A i \in FormEpisodes(req) :
                     config.Episodes[i].Request.Form = peekForm(req)
                     => /\ last'.outcome = "replay"
                        /\ last'.resp = config.Episodes[i].Response
                        /\ config'.Episodes = config.Episodes]_vars

\* C8 amended: a form-encoded POST some field of which has other values in
\* (or is missing from) every episode recorded from a form-encoded POST to
\* the same target produces a new episode; a POST whose field set is that
\* of a recorded episode is answered with that episode and creates none.
C8_FormsDistinctUnlessContained ==
    [][\A req \in ReplayRequests :
          (/\ config.Cassette # ""
           /\ IsFormPost(req)
           /\ Served(req)) =>
              /\ (\A i \in FormEpisodes(req) :
                     ~FormWithin(peekForm(req), config.Episodes[i].Request.Form))
                  => /\ last'.outcome = "record"
                     /\ Len(config'.Episodes) = Len(config.Episodes) + 1
              /\ \A i \in FormEpisodes(req) :
                     config.Episodes[i].Request.Form = peekForm(req)
                     => /\ last'.outcome = "replay"
                        /\ last'.resp = config.Episodes[i].Response
                        /\ config'.Episodes = config.Episodes]_vars

\* two form-encoded POSTs with different field sets have been recorded and
\* the second field set, submitted again, was answered with the second
\* episode
C8_Witness ==
    /\ last.kind = "proxy"
    /\ last.outcome = "replay"
    /\ IsFormPost(last.req)
    /\ Len(config.Episodes) = 2
    /\ FormEpisodes(last.req) = {1, 2}
    /\ config.Episodes[1].Request.Form # config.Episodes[2].Request.Form
    /\ config.Episodes[2].Request.Form = peekForm(last.req)
    /\ last.resp = config.Episodes[2].Response
    /\ last.resp # config.Episodes[1].Response

(***************************************************************************)
(* Properties of the matcher (specification SpecMatch)                     *)
(***************************************************************************)
Matched == probe.kind = "match" /\ probe.result = "same"

Decided == probe.kind = "match" /\ probe.result # "pending"

\* C5: a live request matches a recorded request only if, for every header
\* name the policy lists, its list of values has the length and the values,
\* position by position, of the recorded request's list; so two requests
\* that differ in a listed header, one of them not carrying it included,
\* never match.
C5_ListedHeadersEqual ==
    Matched =>
        \A n \in 1..Len(probe.matchHeaders) :
            LET live == MapGet(probe.live.Header, probe.matchHeaders[n])
                rec == MapGet(probe.recorded.Header, probe.matchHeaders[n])
            IN  /\ Len(live) = Len(rec)
                /\ \A i \in 1..Len(live) : live[i] = rec[i]

\* a and b are equal in method, target, body and every header the policy
\* lists
EqualButUnlistedHeaders(a, b, matchHeaders) ==
    /\ a.Method = b.Method
    /\ a.URL = b.URL
    /\ a.Body = b.Body
    /\ \A n \in 1..Len(matchHeaders) :
          MapGet(a.Header, matchHeaders[n]) = MapGet(b.Header, matchHeaders[n])

\* C6: two requests equal in method, target, listed headers and body, and
\* differing in headers the policy does not list, get the same match result
\* against every recorded request.
C6_UnlistedHeadersIgnored ==
    Decided =>
        \A other \in MatchRequests :
            EqualButUnlistedHeaders(probe.live, other, probe.matchHeaders)
            => (sameRequest(probe.recorded, other, probe.matchHeaders) <=> Matched)

\* C9: a live request whose body does not parse as a non-empty form matches
\* a recorded request only if the recorded raw body is equal to the live
\* body, byte for byte, for every method and target.
C9_RawBodiesEqual ==
    (Matched /\ DOMAIN parsePostForm(probe.live) = {})
        => probe.recorded.Body = probe.live.Body

(***************************************************************************)
(* Property of the cassette encoding (specification SpecRoundTrip)         *)
(***************************************************************************)

\* C10: saving an episode sequence and loading the cassette again yields
\* the same sequence: order, request fields, status, headers and body
\* bytes, for textual and for binary bodies.
C10_LoadAfterSave ==
    (probe.kind = "roundtrip" /\ probe.phase = "loaded")
        => config.Episodes = probe.E

(***************************************************************************)
(* Properties of the control endpoint and of forwarding (specification     *)
(* Spec)                                                                   *)
(***************************************************************************)

\* the step is the handling of a control request of this method and body
Configured(method, body) ==
    /\ last'.kind = "config"
    /\ last'.req.Method = method
    /\ handleConfigRequest(method, body)

\* the episodes a control POST naming cassette name would load from fs
LoadedBack(name, c, fs) == Load([c EXCEPT !.Cassette = name], fs).Episodes

\* C11: switching from cassette A to cassette B and back to A restores the
\* episode sequence A had when it was left, and what is recorded under B
\* is not written into the file of A.  Step by step: when a is left for
\* another cassette, what a switch back to a would load is the sequence
\* held at that moment, and while a is not inserted its file does not
\* change.
C11_SwitchBackRestores ==
    [][\A a \in CassetteNames :
          /\ (/\ config.Cassette = a
              /\ config'.Cassette \in CassetteNames \ {a})
                 => LoadedBack(a, config', files') = config.Episodes
          /\ (config.Cassette # a /\ config'.Cassette # a)
                 => files'[a] = files[a]]_vars

\* C12: after a control POST every field the body names has the value
\* supplied, every field it does not name keeps its value, whatever the
\* configuration was before, and the episodes are those loaded for the
\* resulting cassette name.
C12_PostSetsNamedKeepsOthers ==
    [][\A n \in 1..Len(ConfigBodies) :
          Configured("POST", ConfigBodies[n]) =>
              LET body == ConfigBodies[n]
                  named(key, old) == IF key \in DOMAIN body THEN body[key] ELSE old
                  file == files[config'.Cassette]
              IN  /\ config'.Cassette = named("cassette", config.Cassette)
                  /\ config'.RecordNewEpisodes =
                         named("record_new_episodes", config.RecordNewEpisodes)
                  /\ config'.DenyUnrecordedRequests =
                         named("deny_unrecorded_requests", config.DenyUnrecordedRequests)
                  /\ config'.RewriteHostHeader =
                         named("rewrite_host_header", config.RewriteHostHeader)
                  /\ config'.MatchHeaders = named("match_headers", config.MatchHeaders)
                  /\ config'.Episodes =
                         IF config'.Cassette = "" \/ ~file.exists THEN <<>>
                         ELSE episodes(file.data)]_vars

\* C13: a control DELETE with no cassette selected answers with an error
\* and changes nothing; with a cassette selected it leaves the episode
\* sequence empty and the file of the cassette absent, and the cassette
\* name, the toggles, matchHeaders and the other files as they were.
C13_DeleteErasesOrFails ==
    [][Configured("DELETE", EmptyMap) =>
          IF config.Cassette = ""
          THEN /\ last'.resp.StatusCode = 500
               /\ last'.resp.Body = ResetErrorBody
               /\ config' = config
               /\ files' = files
          ELSE /\ last'.resp.StatusCode = 200
               /\ config'.Episodes = <<>>
               /\ ~files'[config.Cassette].exists
               /\ config' = [config EXCEPT !.Episodes = <<>>]
               /\ \A f \in FileNames \ {config.Cassette} : files'[f] = files[f]]_vars

\* a cassette holding an episode was erased with recording switched off,
\* the file of the other cassette still holding its episode
C13_Witness ==
    /\ last.kind = "config"
    /\ last.req.Method = "DELETE"
    /\ last.resp.StatusCode = 200
    /\ config.Cassette # ""
    /\ ~config.RecordNewEpisodes
    /\ config.Episodes = <<>>
    /\ ~files[config.Cassette].exists
    /\ forwarded = 2
    /\ \E f \in CassetteNames \ {config.Cassette} :
          files[f].exists /\ Len(files[f].data) = 1

\* C14: with the upstream unreachable, a request that is forwarded gets the
\* server error and nothing is recorded: no episode is appended and no
\* cassette file is written, on the recording branch as on the others.
C14_UnreachableNotRecorded ==
    [][\A req \in Requests :
          (~upstreamUp /\ Served(req) /\ last'.upstream = 1) =>
              /\ last'.resp.StatusCode = 500
              /\ NothingRecorded]_vars

(***************************************************************************)
(* Property of the lookup (specification SpecReplay)                       *)
(***************************************************************************)

\* the indices of the episodes of eps that match req under the policy
\* in force
MatchingIn(req, eps) ==
    {i \in 1..Len(eps) : sameRequest(eps[i].Request, req, config.MatchHeaders)}

First(S) == CHOOSE i \in S : \A j \in S : i <= j

\* C18: the episode replayed for a request is the matching episode of the
\* smallest index, and a step that appends an episode leaves every request
\* that could be replayed before it with the same first match.
C18_FirstMatchWins ==
    [][\A req \in ReplayRequests :
          (config.Cassette # "" /\ Served(req)) =>
              /\ MatchingIn(req, config.Episodes) # {} =>
                    /\ last'.outcome = "replay"
                    /\ last'.resp =
                          serveEpisode(config.Episodes[First(MatchingIn(req, config.Episodes))])
              /\ \A other \in ReplayRequests :
                    MatchingIn(other, config.Episodes) # {} =>
                       First(MatchingIn(other, config'.Episodes)) =
                          First(MatchingIn(other, config.Episodes))]_vars

\* a request that two episodes with different responses match was answered
\* from the first of them
C18_Witness ==
    /\ last.kind = "proxy"
    /\ last.outcome = "replay"
    /\ config.Cassette # ""
    /\ MatchingIn(last.req, config.Episodes) = {1, 2}
    /\ config.Episodes[1].Response # config.Episodes[2].Response
    /\ last.resp = config.Episodes[1].Response

(***************************************************************************)
(* The pipeline with cassette files that are not what Save wrote and with  *)
(* control bodies that name fields without a json tag (specification       *)
(* SpecFaults).  The cassette directory is shared with the user, who can   *)
(* edit a cassette file or change its mode.                                *)
(***************************************************************************)
OtherHost == "elsewhere"

FaultConfigBodies ==
    <<[cassette |-> "A"],
      [cassette |-> "B"],
      [TargetHost |-> OtherHost]>>

\* the user damages an existing cassette file; a field of the wrong type
\* leaves Go's zero value in the episode decoded
CassetteFileDamaged(name, fault) ==
    /\ files[name].exists
    /\ files[name].fault = "none"
    /\ fault \in {"type", "null"} => files[name].data # <<>>
    /\ files' = [files EXCEPT
                    ![name].fault = fault,
                    ![name].data =
                        IF fault = "type"
                        THEN [@ EXCEPT ![1].Response.StatusCode = 0] ELSE @]
    /\ UNCHANGED <<config, upstreamUp, forwarded, last, probe, inflight>>

NextFaults ==
    \/ \E req \in Requests : ServeHTTP(req)
    \/ \E n \in 1..Len(FaultConfigBodies) :
          handleConfigRequest("POST", FaultConfigBodies[n])
    \/ \E method \in ConfigMethods \ {"POST"} : handleConfigRequest(method, EmptyMap)
    \/ \E name \in CassetteNames : \E fault \in Faults :
          CassetteFileDamaged(name, fault)

SpecFaults == Init /\ [][NextFaults]_vars

\* C15: Load never leaves a partly parsed episode set: with no cassette set
\* or no cassette file, the control POST succeeds and the episode sequence
\* is empty; with a file that cannot be read or fails to parse, in whatever
\* way, the control POST is answered with the error and the episode
\* sequence is empty afterwards.
C15_LoadLeavesNothingPartial ==
    [][\A n \in 1..Len(FaultConfigBodies) :
          Configured("POST", FaultConfigBodies[n]) =>
              LET file == files[config'.Cassette]
              IN  /\ (config'.Cassette = "" \/ ~file.exists) =>
                        /\ last'.resp.StatusCode = 200
                        /\ config'.Episodes = <<>>
                  /\ (config'.Cassette # "" /\ file.exists /\ file.fault # "none") =>
                        /\ last'.resp.StatusCode = 500
                        /\ config'.Episodes = <<>>]_vars

\* C16: when persisting the cassette fails during a recording, the request
\* that triggered the recording is answered with the failure, and the new
\* episode is in memory all the same, so that the same request is replayed
\* afterwards.
C16_SaveFailureSurfaced ==
    [][\A req \in Requests :
          (/\ config.Cassette # ""
           /\ SaveError(config, files) # "none"
           /\ Served(req)
           /\ last'.outcome = "record") =>
              /\ last'.resp.StatusCode = 500
              /\ Len(config'.Episodes) = Len(config.Episodes) + 1
              /\ findEpisode(req, config'.Episodes, config'.MatchHeaders) # 0]_vars

\* C17: targetHost is the upstream host given at start-up, in every state,
\* and the host-rewrite stage never writes another host.
C17_TargetHostFixed ==
    /\ config.TargetHost = TargetHost
    /\ last.host \in {"", ProxyHost, TargetHost}

(***************************************************************************)
(* Recordings handled concurrently (specification SpecConcurrent).         *)
(* net/http runs every request in a goroutine of its own and the handlers  *)
(* share the Config without any lock.  A recording is split where another  *)
(* goroutine can run between two accesses of the shared state:             *)
(*   serveAndRecord  cassetteHandler picks the branch, recordRequest,      *)
(*                   the forward through the recording writer;             *)
(*   appendRead      writeEpisode reads config.Episodes for append;        *)
(*   appendWrite     writeEpisode assigns the appended slice;              *)
(*   SaveMarshal     Save builds and marshals writeableEpisodes;           *)
(*   SaveWriteFile   Save writes the file; the handler returns.            *)
(* The unsynchronised read and write of config.Episodes are a data race;   *)
(* its outcomes are taken to be those of the interleavings of the reads    *)
(* and writes.                                                             *)
(***************************************************************************)
MaxRecorders == 2

Recorders == 1..MaxRecorders

NoEpisode ==
    [Request |-> recordRequest(ConfigRequest("")),
     Response |-> [StatusCode |-> 0, Header |-> EmptyMap, Body |-> <<>>]]

Idle ==
    [pc |-> "idle", req |-> ConfigRequest(""), branch |-> "", cassette |-> "",
     episode |-> NoEpisode, slice |-> <<>>, jsonData |-> <<>>]

\* the state after a control POST has inserted cassette A, the cassette
\* directory being empty and no request being in flight
InitConcurrent ==
    /\ config = [Proxy EXCEPT !.Cassette = "A"]
    /\ files = [f \in FileNames |-> NoFile]
    /\ upstreamUp = TRUE
    /\ forwarded = 0
    /\ last = [NoRequest EXCEPT !.kind = "config",
                                !.req = ConfigRequest("POST"),
                                !.outcome = "config",
                                !.resp.StatusCode = 200]
    /\ probe = NoProbe
    /\ inflight = [handlers |-> [g \in Recorders |-> Idle],
                   appended |-> <<>>, written |-> <<>>]

\* cassetteHandler up to the return of handler.ServeHTTP in serveAndRecord;
\* on the other branches the whole handling, as in ServeHTTP.  The cassette
\* under which the branch was picked is the one named in msg.
serveAndRecord(g, req) ==
    \E kind \in UpstreamKinds :
        LET branch == cassetteHandler(req, config)
            forwards == branch \in {"passthrough", "record"}
            live == proxy(kind, forwarded + 1, upstreamUp)
            found == findEpisode(req, config.Episodes, config.MatchHeaders)
            resp == IF branch = "replay" THEN serveEpisode(config.Episodes[found])
                    ELSE IF branch = "deny"
                    THEN [StatusCode |-> 499, Header |-> EmptyMap, Body |-> DeniedBody]
                    ELSE live
        IN  /\ inflight.handlers[g].pc = "idle"
            /\ forwarded' = IF forwards THEN forwarded + 1 ELSE forwarded
            /\ inflight' = [inflight EXCEPT !.handlers[g] =
                   [pc |-> IF branch = "record" THEN "forwarded" ELSE "done",
                    req |-> req,
                    branch |-> branch,
                    cassette |-> config.Cassette,
                    episode |-> IF branch = "record"
                                THEN [Request |-> recordRequest(req),
                                      Response |-> ProxyResponseWriter(live)]
                                ELSE NoEpisode,
                    slice |-> <<>>,
                    jsonData |-> <<>>]]
            /\ last' = [kind |-> "proxy", req |-> req, outcome |-> branch,
                        resp |-> resp,
                        upstream |-> IF forwards THEN 1 ELSE 0,
                        host |-> IF forwards
                                 THEN rewriteHeaderHandler(req, config).Host
                                 ELSE "",
                        json |-> <<>>]
            /\ UNCHANGED <<config, files, upstreamUp, probe>>

\* writeEpisode: append reads the slice config.Episodes
appendRead(g) ==
    /\ inflight.handlers[g].pc = "forwarded"
    /\ inflight' = [inflight EXCEPT !.handlers[g].pc = "read",
                                    !.handlers[g].slice = config.Episodes]
    /\ UNCHANGED <<config, files, upstreamUp, forwarded, last, probe>>

\* writeEpisode: the slice read, with the episode appended, is assigned
appendWrite(g) ==
    /\ inflight.handlers[g].pc = "read"
    /\ config' = [config EXCEPT !.Episodes =
                     Append(inflight.handlers[g].slice, inflight.handlers[g].episode)]
    /\ inflight' = [inflight EXCEPT !.handlers[g].pc = "appended",
                                    !.appended = Append(@, g)]
    /\ UNCHANGED <<files, upstreamUp, forwarded, last, probe>>

\* Save: writeableEpisodes and json.MarshalIndent
SaveMarshal(g) ==
    /\ inflight.handlers[g].pc = "appended"
    /\ inflight' = [inflight EXCEPT !.handlers[g].pc = "marshalled",
                                    !.handlers[g].jsonData = MarshalIndent(config)]
    /\ UNCHANGED <<config, files, upstreamUp, forwarded, last, probe>>

\* Save: ioutil.WriteFile; writeEpisode, serveAndRecord and the handler return
SaveWriteFile(g) ==
    /\ inflight.handlers[g].pc = "marshalled"
    /\ files' = WriteFile(config, files, inflight.handlers[g].jsonData)
    /\ inflight' = [inflight EXCEPT !.handlers[g].pc = "done",
                                    !.written = Append(@, g)]
    /\ UNCHANGED <<config, upstreamUp, forwarded, last, probe>>

NextConcurrent ==
    \/ \E g \in Recorders : \E req \in Requests : serveAndRecord(g, req)
    \/ \E g \in Recorders : appendRead(g)
    \/ \E g \in Recorders : appendWrite(g)
    \/ \E g \in Recorders : SaveMarshal(g)
    \/ \E g \in Recorders : SaveWriteFile(g)

SpecConcurrent == InitConcurrent /\ [][NextConcurrent]_vars

(***************************************************************************)
(* Properties of concurrent recordings (specification SpecConcurrent)      *)
(***************************************************************************)
AllDone == \A g \in Recorders : inflight.handlers[g].pc = "done"

\* the handlers that took the recording branch
Recorded == {g \in Recorders : inflight.handlers[g].branch = "record"}

\* the positions of the episode of g in the sequence eps
Positions(g, eps) ==
    {i \in 1..Len(eps) : eps[i] = inflight.handlers[g].episode}

\* C19: with recordings running concurrently under one cassette, the file
\* of the cassette holds, once all of them have completed, the snapshot
\* marshalled by the recording that wrote the file last, which can be
\* older than the sequence in memory: an interleaving is reachable after
\* which memory holds both episodes and the file only one.
C19_FileHoldsLastWritersSnapshot ==
    (AllDone /\ inflight.written # <<>>) =>
        LET g == inflight.written[Len(inflight.written)]
        IN  /\ files[config.Cassette].exists
            /\ files[config.Cassette].data = inflight.handlers[g].jsonData
            /\ Len(files[config.Cassette].data) <= Len(inflight.appended)

\* two recordings have completed, memory holds the episodes of both, and
\* the file holds only one of them
C19_Witness ==
    /\ AllDone
    /\ Recorded = {1, 2}
    /\ Len(config.Episodes) = 2
    /\ Positions(1, config.Episodes) # {}
    /\ Positions(2, config.Episodes) # {}
    /\ inflight.handlers[1].episode # inflight.handlers[2].episode
    /\ Len(files[config.Cassette].data) = 1
    /\ MarshalIndent(config) # files[config.Cassette].data

\* C20: once all the recordings handled concurrently have completed, the
\* episode sequence in memory holds the episode of every one of them
\* exactly once, in the order in which the appends completed.
C20_EveryEpisodeOnceInOrder ==
    AllDone =>
        /\ Len(config.Episodes) = Len(inflight.appended)
        /\ \A i \in 1..Len(inflight.appended) :
              config.Episodes[i] = inflight.handlers[inflight.appended[i]].episode
        /\ \A g \in Recorded : Cardinality(Positions(g, config.Episodes)) = 1

(***************************************************************************)
(* Recordings in flight while the control endpoint is used (specification  *)
(* SpecSwitch): the steps of SpecConcurrent, from the start-up state, and  *)
(* control requests served between them.                                   *)
(***************************************************************************)
SwitchConfigBodies ==
    <<[cassette |-> "A"],
      [cassette |-> "B"],
      [cassette |-> ""]>>

InitSwitch ==
    /\ config = Proxy
    /\ files = [f \in FileNames |-> NoFile]
    /\ upstreamUp = TRUE
    /\ forwarded = 0
    /\ last = NoRequest
    /\ probe = NoProbe
    /\ inflight = [handlers |-> [g \in Recorders |-> Idle],
                   appended |-> <<>>, written |-> <<>>]

NextSwitch ==
    \/ \E g \in Recorders : \E req \in Requests : serveAndRecord(g, req)
    \/ \E g \in Recorders : appendRead(g)
    \/ \E g \in Recorders : appendWrite(g)
    \/ \E g \in Recorders : SaveMarshal(g)
    \/ \E g \in Recorders : SaveWriteFile(g)
    \/ \E n \in 1..Len(SwitchConfigBodies) :
          handleConfigRequest("POST", SwitchConfigBodies[n])
    \/ handleConfigRequest("DELETE", EmptyMap)

SpecSwitch == InitSwitch /\ [][NextSwitch]_vars

\* the episode of handler g as a cassette file holds it
Written(g) == writeableEpisodes(<<inflight.handlers[g].episode>>)[1]

\* C21: an episode is stored only in the cassette under which its request
\* took the recording branch: whatever the control endpoint does while the
\* request waits for the upstream, the episode is in the episode sequence
\* only while that cassette is inserted, is in the file of no other
\* cassette, and no file is written for the empty cassette name.
C21_EpisodeStaysInItsCassette ==
    /\ ~files[""].exists
    /\ \A g \in DOMAIN inflight.handlers :
          inflight.handlers[g].branch = "record" =>
             /\ config.Cassette # inflight.handlers[g].cassette
                   => Positions(g, config.Episodes) = {}
             /\ \A f \in FileNames \ {inflight.handlers[g].cassette} :
                   \A i \in 1..Len(files[f].data) : files[f].data[i] # Written(g)

(***************************************************************************)
(* The dispatch on the path (specification SpecControl): every request,    *)
(* on the control path or off it, enters through configHandler.  The JSON  *)
(* object a control POST carries is given beside the request.              *)
(***************************************************************************)

\* a configHandler that keeps for itself only the methods the control
\* endpoint knows
configHandlerKnownMethods(req, body) ==
    IF req.URL.Path = ConfigPath /\ req.Method \in {"GET", "POST", "DELETE"}
    THEN handleConfigRequest(req.Method, body)
    ELSE ServeHTTP(req)

\* configHandler: the control path goes to handleConfigRequest, every other
\* path to rewriteHeaderHandler and cassetteHandler
configHandler(req, body) ==
    IF req.URL.Path = ConfigPath
    THEN handleConfigRequest(req.Method, body)
    ELSE ServeHTTP(req)

ControlBodies ==
    <<[cassette |-> "A"],
      [cassette |-> ""],
      [record_new_episodes |-> FALSE]>>

NextControl ==
    \/ \E req \in Requests : configHandler(req, EmptyMap)
    \/ \E n \in 1..Len(ControlBodies) :
          configHandler(ConfigRequest("POST"), ControlBodies[n])
    \/ \E method \in ConfigMethods \ {"POST"} :
          configHandler(ConfigRequest(method), EmptyMap)

SpecControl == Init /\ [][NextControl]_vars

\* the step is the handling of the control-path request of this method,
\* carrying this body, from its entry into configHandler
Entered(method, body) ==
    /\ last'.req = ConfigRequest(method)
    /\ configHandler(ConfigRequest(method), body)

\* no episode in memory or in a cassette file was recorded from a request
\* to the control path
NoControlEpisode(c, fs) ==
    /\ \A i \in 1..Len(c.Episodes) : c.Episodes[i].Request.URL.Path # ConfigPath
    /\ \A f \in FileNames : \A i \in 1..Len(fs[f].data) :
          fs[f].data[i].Request.URL.Path # ConfigPath

\* what C22 says of the handling of one control-path request
StaysOutOfThePipeline(method) ==
    /\ forwarded' = forwarded
    /\ last'.kind = "config"
    /\ last'.upstream = 0
    /\ last'.host = ""
    /\ last'.outcome \notin {"passthrough", "replay", "record", "deny"}
    /\ NoControlEpisode(config', files')
    /\ method \notin {"GET", "POST", "DELETE"} =>
          /\ last'.resp.StatusCode = 405
          /\ last'.resp.Body = NotAllowedBody
          /\ config' = config
          /\ files' = files

\* C22: a request to the control path never reaches the host-rewrite or
\* the record/replay stage: whatever its method and the configuration, it
\* is not forwarded to the upstream, not replayed and not recorded as an
\* episode; a method other than GET, POST and DELETE is answered 405 and
\* leaves the Configuration and the cassette files as they were.
C22_ControlPathStaysOutOfThePipeline ==
    [][/\ \A n \in 1..Len(ControlBodies) :
             Entered("POST", ControlBodies[n]) => StaysOutOfThePipeline("POST")
       /\ \A method \in ConfigMethods \ {"POST"} :
             Entered(method, EmptyMap) => StaysOutOfThePipeline(method)]_vars

\* a PUT to the control path was answered 405 while a cassette holding an
\* episode was inserted, recording was enabled and the upstream could
\* still be contacted
C22_Witness ==
    /\ last.kind = "config"
    /\ last.req = ConfigRequest("PUT")
    /\ last.resp.StatusCode = 405
    /\ config.Cassette # ""
    /\ config.RecordNewEpisodes
    /\ Len(config.Episodes) = 1
    /\ forwarded = 1
    /\ upstreamUp

=============================================================================
